---- MODULE Spec2Model ----
(***************************************************************************)
(* The JSON-backed record store of internal/database (Client) and the way  *)
(* its operations read and overwrite the single backing file.              *)
(*                                                                         *)
(* Spec      one caller: every store operation runs from its load to its   *)
(*           overwrite without another operation in between.               *)
(* SpecConc  several callers (the HTTP server runs each request in its own *)
(*           goroutine): an operation is a sequence of steps, load,        *)
(*           second load (CreatePost), open-with-truncate, write.          *)
(***************************************************************************)
EXTENDS Integers, Sequences, FiniteSets, TLC

\* ------------------------------------------------------------------ bounds

\* uuid.NewString() draws from MaxIds identifiers.
MaxIds == 2

\* SpecConc: the number of store calls begun over a run.
MaxCalls == 3
\* SpecHttp: the HTTP requests received.
MaxRequests == 3

\* ------------------------------------------------------------------ inputs

Emails == {"a@x.com", "b@x.com"}

\* (password, name, age) triples a caller supplies.
Profiles == {<<"pw1", "Ann", 30>>, <<"pw2", "Bob", 31>>}

Texts == {"hello"}

\* The readings time.Now() gives (the wall clock may step either way).
Times == {1, 2}

Ids == {"id" \o ToString(i) : i \in 1..MaxIds}

Procs == {"g1", "g2"}

\* ------------------------------------------------------------------ errors

ErrNil == "nil"
\* fmt.Errorf("user with email %s already exists", email)
ErrAlreadyExists == "already exists"
\* fmt.Errorf("... with ... %s doesn't exist", ...)
ErrNotFound == "doesn't exist"
\* os.ReadFile: "open ...: no such file or directory"
ErrNoSuchFile == "no such file or directory"
\* json.Unmarshal: "unexpected end of JSON input", "invalid character ..."
ErrSyntax == "invalid JSON"
\* os.ReadFile: "open ...: permission denied", or any error other than the two above
ErrPermission == "permission denied"

\* ------------------------------------------------------------------ time

\* A time.Time: the instant, the location and whether it carries a monotonic
\* clock reading.
ZeroTime == [ns |-> 0, loc |-> "UTC", mono |-> FALSE]

\* time.Now(): the wall clock in the local zone, with a monotonic reading.
TimeNow(clock) == [ns |-> clock, loc |-> "Local", mono |-> TRUE]

\* Time.UTC(): the same instant in UTC; setLoc strips the monotonic reading.
UTC(t) == [ns |-> t.ns, loc |-> "UTC", mono |-> FALSE]

\* Time.MarshalJSON: RFC 3339 text, the instant and the zone offset; the
\* monotonic reading is not part of the text.
MarshalTime(t) == [instant |-> t.ns, zone |-> t.loc]

\* Time.UnmarshalJSON: the instant in the zone the text names.
UnmarshalTime(s) == [ns |-> s.instant, loc |-> s.zone, mono |-> FALSE]

\* ------------------------------------------------------------------ schema

\* A Go map as a function on its keys.
EmptyMap == [k \in {} |-> 0]

Put(m, k, v) == [x \in (DOMAIN m) \cup {k} |-> IF x = k THEN v ELSE m[x]]

Delete(m, k) == [x \in (DOMAIN m) \ {k} |-> m[x]]

\* User{}
ZeroUser == [CreatedAt |-> ZeroTime, Email |-> "", Password |-> "", Name |-> "", Age |-> 0]

\* Post{}
ZeroPost == [ID |-> "", CreatedAt |-> ZeroTime, UserEmail |-> "", Text |-> ""]

\* databaseSchema{}: both maps nil (a nil map reads as an empty one).
ZeroDB == [Users |-> EmptyMap, Posts |-> EmptyMap]

\* The JSON object of a User, by its json tags.
MarshalUser(u) ==
  [createdAt |-> MarshalTime(u.CreatedAt), email |-> u.Email,
   password |-> u.Password, name |-> u.Name, age |-> u.Age]

UnmarshalUser(j) ==
  [CreatedAt |-> UnmarshalTime(j.createdAt), Email |-> j.email,
   Password |-> j.password, Name |-> j.name, Age |-> j.age]

\* The JSON object of a Post, by its json tags.
MarshalPost(p) ==
  [id |-> p.ID, createdAt |-> MarshalTime(p.CreatedAt),
   userEmail |-> p.UserEmail, text |-> p.Text]

UnmarshalPost(j) ==
  [ID |-> j.id, CreatedAt |-> UnmarshalTime(j.createdAt),
   UserEmail |-> j.userEmail, Text |-> j.text]

\* ------------------------------------------------------------------ bytes

\* The number of decimal digits json.Marshal writes for an int.
Digits(n) == IF n < 10 THEN 1 ELSE IF n < 100 THEN 2 ELSE 3

\* The length of the RFC 3339 text of a timestamp (taken whole seconds, UTC).
TimeBytes == Len("2006-01-02T15:04:05Z")

\* The bytes of one member of "users": key, object and separating comma.
UserBytes(j) ==
  Len("'':{'createdAt':'','email':'','password':'','name':'','age':},")
  + Len(j.email) + TimeBytes + Len(j.email) + Len(j.password) + Len(j.name)
  + Digits(j.age)

\* The bytes of one member of "posts": key, object and separating comma.
PostBytes(j) ==
  Len("'':{'id':'','createdAt':'','userEmail':'','text':''},")
  + Len(j.id) + Len(j.id) + TimeBytes + Len(j.userEmail) + Len(j.text)

RECURSIVE SumBytes(_, _, _)
SumBytes(m, keys, user) ==
  IF keys = {} THEN 0
  ELSE LET k == CHOOSE x \in keys : TRUE
       IN (IF user THEN UserBytes(m[k]) ELSE PostBytes(m[k]))
          + SumBytes(m, keys \ {k}, user)

\* The length of the JSON text of a document.
DocBytes(users, posts) ==
  Len("{'users':{},'posts':{}}")
  + SumBytes(users, DOMAIN users, TRUE) + SumBytes(posts, DOMAIN posts, FALSE)

\* ------------------------------------------------------------------ file

\* The backing file: absent, or its content. The content is a JSON document
\* ("json", with its two members), nothing ("empty": just opened with
\* O_TRUNC) or a document followed by the tail of a longer one ("mixed"); or
\* the file is there and os.ReadFile cannot read it ("denied").
NoFile == [kind |-> "absent", users |-> EmptyMap, posts |-> EmptyMap, size |-> 0]

EmptyFile == [kind |-> "empty", users |-> EmptyMap, posts |-> EmptyMap, size |-> 0]

MixedFile(n) == [kind |-> "mixed", users |-> EmptyMap, posts |-> EmptyMap, size |-> n]

\* The file holds a document.
IsDoc(f) == f.kind = "json"

DeniedFile == [kind |-> "denied", users |-> EmptyMap, posts |-> EmptyMap, size |-> 0]

\* The file exists and readDB cannot get a document out of it.
Unusable(f) == f.kind \in {"empty", "mixed", "denied"}

\* json.Marshal(db): the bytes updateDB and createDB hand to os.WriteFile.
Marshal(db) ==
  LET users == [e \in DOMAIN db.Users |-> MarshalUser(db.Users[e])]
      posts == [i \in DOMAIN db.Posts |-> MarshalPost(db.Posts[i])]
  IN [kind |-> "json", users |-> users, posts |-> posts,
      size |-> DocBytes(users, posts)]

\* json.Unmarshal(data, db) of a well-formed document.
Unmarshal(f) ==
  [Users |-> [e \in DOMAIN f.users |-> UnmarshalUser(f.users[e])],
   Posts |-> [i \in DOMAIN f.posts |-> UnmarshalPost(f.posts[i])]]

\* os.WriteFile, first half: OpenFile(name, O_WRONLY|O_CREATE|O_TRUNC, perm).
OpenTrunc(f) == EmptyFile

\* os.WriteFile, second half: f.Write(data) at offset 0 of the open file. Bytes
\* another writer put beyond len(data) since the truncation stay in the file.
WriteData(f, data) == IF f.size > data.size THEN MixedFile(f.size) ELSE data

\* os.WriteFile(c.path, data, 0600) with no other file access in between.
WriteFile(f, data) == WriteData(OpenTrunc(f), data)

\* Client.readDB
readDB(f) ==
  IF f.kind = "absent" THEN [db |-> ZeroDB, err |-> ErrNoSuchFile]
  ELSE IF f.kind = "denied" THEN [db |-> ZeroDB, err |-> ErrPermission]
  ELSE IF f.kind # "json" THEN [db |-> ZeroDB, err |-> ErrSyntax]
  ELSE [db |-> Unmarshal(f), err |-> ErrNil]

\* Client.updateDB: the bytes it writes.
updateDB(db) == Marshal(db)

\* Client.createDB: the bytes it writes.
createDB == Marshal([Users |-> EmptyMap, Posts |-> EmptyMap])

\* ------------------------------------------------------------------ store operations, in memory

\* Mutant: CreatedAt is time.Now() as it is, without .UTC().
CreateUserMem_NoUTC(db, email, password, name, age, t) ==
  IF email \in DOMAIN db.Users
  THEN [err |-> ErrAlreadyExists, user |-> ZeroUser, db |-> db]
  ELSE LET user == [CreatedAt |-> t, Email |-> email, Password |-> password,
                    Name |-> name, Age |-> age]
       IN [err |-> ErrNil, user |-> user,
           db |-> [db EXCEPT !.Users = Put(db.Users, email, user)]]

\* Mutant: no duplicate check; the entry is overwritten.
CreateUserMem_Overwrites(db, email, password, name, age, t) ==
  LET user == [CreatedAt |-> UTC(t), Email |-> email, Password |-> password,
               Name |-> name, Age |-> age]
  IN [err |-> ErrNil, user |-> user,
      db |-> [db EXCEPT !.Users = Put(db.Users, email, user)]]

\* CreateUser between its load and its overwrite: the duplicate check and the
\* insertion. t is what time.Now() returns.
CreateUserMem(db, email, password, name, age, t) ==
  IF email \in DOMAIN db.Users
  THEN [err |-> ErrAlreadyExists, user |-> ZeroUser, db |-> db]
  ELSE LET user == [CreatedAt |-> UTC(t), Email |-> email, Password |-> password,
                    Name |-> name, Age |-> age]
       IN [err |-> ErrNil, user |-> user,
           db |-> [db EXCEPT !.Users = Put(db.Users, email, user)]]

\* Mutant: a missing user is inserted instead of reported.
UpdateUserMem_Upsert(db, email, password, name, age) ==
  LET old == IF email \in DOMAIN db.Users THEN db.Users[email] ELSE ZeroUser
      user == [old EXCEPT !.Email = email, !.Password = password,
                          !.Name = name, !.Age = age]
  IN [err |-> ErrNil, user |-> user,
      db |-> [db EXCEPT !.Users = Put(db.Users, email, user)]]

\* Mutant: the stored user is built anew, so CreatedAt is the zero time.
UpdateUserMem_FreshStruct(db, email, password, name, age) ==
  IF email \notin DOMAIN db.Users
  THEN [err |-> ErrNotFound, user |-> ZeroUser, db |-> db]
  ELSE LET user == [ZeroUser EXCEPT !.Email = email, !.Password = password,
                                    !.Name = name, !.Age = age]
       IN [err |-> ErrNil, user |-> user,
           db |-> [db EXCEPT !.Users = Put(db.Users, email, user)]]

\* UpdateUser between its load and its overwrite.
UpdateUserMem(db, email, password, name, age) ==
  IF email \notin DOMAIN db.Users
  THEN [err |-> ErrNotFound, user |-> ZeroUser, db |-> db]
  ELSE LET old == db.Users[email]
           oldEmail == old.Email
           user == [old EXCEPT !.Email = email, !.Password = password,
                               !.Name = name, !.Age = age]
           put == Put(db.Users, email, user)
       IN [err |-> ErrNil, user |-> user,
           db |-> [db EXCEPT !.Users = IF oldEmail # email THEN Delete(put, oldEmail)
                                       ELSE put]]

\* Mutant: the user's posts are deleted with the user.
DeleteUserMem_Cascade(db, email) ==
  IF email \notin DOMAIN db.Users
  THEN [err |-> ErrNotFound, db |-> db]
  ELSE [err |-> ErrNil,
        db |-> [Users |-> Delete(db.Users, email),
                Posts |-> [i \in {j \in DOMAIN db.Posts : db.Posts[j].UserEmail # email}
                             |-> db.Posts[i]]]]

\* Mutant: the entry is found but not removed.
DeleteUserMem_KeepsEntry(db, email) ==
  IF email \notin DOMAIN db.Users
  THEN [err |-> ErrNotFound, db |-> db]
  ELSE [err |-> ErrNil, db |-> db]

\* DeleteUser between its load and its overwrite.
DeleteUserMem(db, email) ==
  IF email \notin DOMAIN db.Users
  THEN [err |-> ErrNotFound, db |-> db]
  ELSE [err |-> ErrNil, db |-> [db EXCEPT !.Users = Delete(db.Users, email)]]

\* Mutant: the post is built without its ID field.
CreatePostMem_NoIdField(db, userEmail, text, id, t) ==
  LET post == [ID |-> "", CreatedAt |-> UTC(t), UserEmail |-> userEmail, Text |-> text]
  IN [err |-> ErrNil, post |-> post,
      db |-> [db EXCEPT !.Posts = Put(db.Posts, id, post)]]

\* CreatePost after both loads: id is what uuid.NewString() returns, t what
\* time.Now() returns.
CreatePostMem(db, userEmail, text, id, t) ==
  LET post == [ID |-> id, CreatedAt |-> UTC(t), UserEmail |-> userEmail, Text |-> text]
  IN [err |-> ErrNil, post |-> post,
      db |-> [db EXCEPT !.Posts = Put(db.Posts, id, post)]]

\* Mutant: the posts map is emptied instead of losing one key.
DeletePostMem_Clears(db, id) ==
  IF id \notin DOMAIN db.Posts
  THEN [err |-> ErrNotFound, db |-> db]
  ELSE [err |-> ErrNil, db |-> [db EXCEPT !.Posts = EmptyMap]]

\* DeletePost between its load and its overwrite.
DeletePostMem(db, id) ==
  IF id \notin DOMAIN db.Posts
  THEN [err |-> ErrNotFound, db |-> db]
  ELSE [err |-> ErrNil, db |-> [db EXCEPT !.Posts = Delete(db.Posts, id)]]

\* ------------------------------------------------------------------ store operations, whole

\* Client.GetUser
GetUser(f, email) ==
  LET r == readDB(f)
  IN IF r.err # ErrNil THEN [err |-> r.err, user |-> ZeroUser]
     ELSE IF email \notin DOMAIN r.db.Users THEN [err |-> ErrNotFound, user |-> ZeroUser]
     ELSE [err |-> ErrNil, user |-> r.db.Users[email]]

\* Client.GetPost
GetPost(f, id) ==
  LET r == readDB(f)
  IN IF r.err # ErrNil THEN [err |-> r.err, post |-> ZeroPost]
     ELSE IF id \notin DOMAIN r.db.Posts THEN [err |-> ErrNotFound, post |-> ZeroPost]
     ELSE [err |-> ErrNil, post |-> r.db.Posts[id]]

\* Client.GetPosts: the posts it appends, as a set (the slice holds them in the
\* order the map iteration yields them).
GetPosts(f, userEmail) ==
  LET r == readDB(f)
  IN IF r.err # ErrNil THEN [err |-> r.err, posts |-> {}]
     ELSE [err |-> ErrNil,
           posts |-> {r.db.Posts[i] : i \in {j \in DOMAIN r.db.Posts :
                                              r.db.Posts[j].UserEmail = userEmail}}]

\* The orders in which ranging over a map with keys S can yield them.
Orders(S) ==
  {o \in [1..Cardinality(S) -> S] : \A i, j \in 1..Cardinality(S) : i # j => o[i] # o[j]}

\* Client.GetPosts, the loop: the posts appended to userPosts when ranging over
\* db.Posts yields its keys in this order.
RECURSIVE AppendMatching(_, _, _)
AppendMatching(posts, order, userEmail) ==
  IF order = <<>> THEN <<>>
  ELSE LET post == posts[Head(order)]
           rest == AppendMatching(posts, Tail(order), userEmail)
       IN IF post.UserEmail = userEmail THEN <<post>> \o rest ELSE rest

\* Mutant: every post is appended, whatever its UserEmail.
GetPostsSlice_NoFilter(f, userEmail, order) ==
  LET r == readDB(f)
  IN IF r.err # ErrNil THEN [err |-> r.err, posts |-> <<>>]
     ELSE [err |-> ErrNil, posts |-> [k \in 1..Len(order) |-> r.db.Posts[order[k]]]]

\* Client.GetPosts: the slice it returns, given the order of the map iteration.
GetPostsSlice(f, userEmail, order) ==
  LET r == readDB(f)
  IN IF r.err # ErrNil THEN [err |-> r.err, posts |-> <<>>]
     ELSE [err |-> ErrNil, posts |-> AppendMatching(r.db.Posts, order, userEmail)]

\* Client.CreateUser
CreateUser(f, email, password, name, age, t) ==
  LET r == readDB(f)
  IN IF r.err # ErrNil THEN [file |-> f, err |-> r.err, user |-> ZeroUser]
     ELSE LET m == CreateUserMem(r.db, email, password, name, age, t)
          IN IF m.err # ErrNil THEN [file |-> f, err |-> m.err, user |-> ZeroUser]
             ELSE [file |-> WriteFile(f, updateDB(m.db)), err |-> ErrNil, user |-> m.user]

\* Client.UpdateUser
UpdateUser(f, email, password, name, age) ==
  LET r == readDB(f)
  IN IF r.err # ErrNil THEN [file |-> f, err |-> r.err, user |-> ZeroUser]
     ELSE LET m == UpdateUserMem(r.db, email, password, name, age)
          IN IF m.err # ErrNil THEN [file |-> f, err |-> m.err, user |-> ZeroUser]
             ELSE [file |-> WriteFile(f, updateDB(m.db)), err |-> ErrNil, user |-> m.user]

\* Client.DeleteUser
DeleteUser(f, email) ==
  LET r == readDB(f)
  IN IF r.err # ErrNil THEN [file |-> f, err |-> r.err]
     ELSE LET m == DeleteUserMem(r.db, email)
          IN IF m.err # ErrNil THEN [file |-> f, err |-> m.err]
             ELSE [file |-> WriteFile(f, updateDB(m.db)), err |-> ErrNil]

\* Mutant: the post is created without the GetUser check.
CreatePost_NoUserCheck(f, userEmail, text, id, t) ==
  LET r == readDB(f)
  IN IF r.err # ErrNil THEN [file |-> f, err |-> r.err, post |-> ZeroPost]
     ELSE LET m == CreatePostMem(r.db, userEmail, text, id, t)
          IN [file |-> WriteFile(f, updateDB(m.db)), err |-> ErrNil, post |-> m.post]

\* Client.CreatePost: the document is loaded, then loaded again by GetUser.
CreatePost(f, userEmail, text, id, t) ==
  LET r == readDB(f)
  IN IF r.err # ErrNil THEN [file |-> f, err |-> r.err, post |-> ZeroPost]
     ELSE LET g == GetUser(f, userEmail)
          IN IF g.err # ErrNil THEN [file |-> f, err |-> g.err, post |-> ZeroPost]
             ELSE LET m == CreatePostMem(r.db, userEmail, text, id, t)
                  IN [file |-> WriteFile(f, updateDB(m.db)), err |-> ErrNil,
                      post |-> m.post]

\* Client.DeletePost
DeletePost(f, id) ==
  LET r == readDB(f)
  IN IF r.err # ErrNil THEN [file |-> f, err |-> r.err]
     ELSE LET m == DeletePostMem(r.db, id)
          IN IF m.err # ErrNil THEN [file |-> f, err |-> m.err]
             ELSE [file |-> WriteFile(f, updateDB(m.db)), err |-> ErrNil]

\* Mutant: the document is created whether or not one exists.
EnsureDB_AlwaysCreates(f) ==
  LET g == WriteFile(f, createDB)
      r == readDB(g)
  IN [file |-> g, err |-> r.err]

\* Mutant: a document that does not parse is replaced by an empty one.
EnsureDB_Repairs(f) ==
  LET dbExists == f.kind # "absent" /\ readDB(f).err # ErrSyntax
      g == IF dbExists THEN f ELSE WriteFile(f, createDB)
      r == readDB(g)
  IN [file |-> g, err |-> r.err]

\* Client.EnsureDB
EnsureDB(f) ==
  LET dbExists == f.kind # "absent"
      g == IF dbExists THEN f ELSE WriteFile(f, createDB)
      r == readDB(g)
  IN [file |-> g, err |-> r.err]

\* ------------------------------------------------------------------ state

VARIABLES
  file,       \* the backing file at c.path
  last,       \* Spec: the last store call and the error it returned
  deleted,    \* Spec: the emails deleted by DeleteUser and not created again since
  proc,       \* SpecConc: each goroutine's store call and how far it has got
  ver,        \* SpecConc: how many times the file has been opened with O_TRUNC
  lastWriter, \* SpecConc: the goroutine whose Write reached the file last
  ncalls      \* SpecConc: the store calls begun

vars == <<file, last, deleted, proc, ver, lastWriter, ncalls>>

concVars == <<proc, ver, lastWriter, ncalls>>

\* A goroutine that has made no call.
IdleProc == [pc |-> "idle"]

\* A goroutine entering a store call: its arguments, the document it loads,
\* the bytes it writes, what it returns, what its last load saw (seen), how
\* many truncations the file had had when it loaded (loadVer), and whether its
\* os.WriteFile has completed (wrote).
NewCall ==
  [pc |-> "load", op |-> "none", email |-> "", password |-> "", name |-> "", age |-> 0,
   text |-> "", id |-> "", db |-> ZeroDB, data |-> EmptyFile, err |-> ErrNil,
   user |-> ZeroUser, post |-> ZeroPost, seen |-> "none", loadVer |-> 0,
   wrote |-> FALSE]

\* NewClient("./db.json"): the client holds a path; nothing has touched the file.
Init ==
  /\ file = NoFile
  /\ last = [op |-> "none", err |-> ErrNil]
  /\ deleted = {}
  /\ proc = [p \in Procs |-> IdleProc]
  /\ ver = 0
  /\ lastWriter = "none"
  /\ ncalls = 0

\* ------------------------------------------------------------------ Spec: one caller

CallEnsureDB ==
  LET r == EnsureDB(file)
  IN /\ file' = r.file
     /\ last' = [op |-> "EnsureDB", err |-> r.err]
     /\ UNCHANGED <<deleted, concVars>>

CallCreateUser ==
  \E email \in Emails, pr \in Profiles, t \in Times :
    LET r == CreateUser(file, email, pr[1], pr[2], pr[3], TimeNow(t))
    IN /\ file' = r.file
       /\ last' = [op |-> "CreateUser", err |-> r.err]
       /\ deleted' = IF r.err = ErrNil THEN deleted \ {email} ELSE deleted
       /\ UNCHANGED concVars

CallUpdateUser ==
  \E email \in Emails, pr \in Profiles :
    LET r == UpdateUser(file, email, pr[1], pr[2], pr[3])
    IN /\ file' = r.file
       /\ last' = [op |-> "UpdateUser", err |-> r.err]
       /\ UNCHANGED <<deleted, concVars>>

\* Mutant: a GetUser that finds no file creates the document.
CallGetUser_CreatesOnMiss ==
  \E email \in Emails :
    LET r == GetUser(file, email)
    IN /\ last' = [op |-> "GetUser", err |-> r.err]
       /\ file' = IF file.kind = "absent" THEN WriteFile(file, createDB) ELSE file
       /\ UNCHANGED <<deleted, concVars>>

CallGetUser ==
  \E email \in Emails :
    LET r == GetUser(file, email)
    IN /\ last' = [op |-> "GetUser", err |-> r.err]
       /\ UNCHANGED <<file, deleted, concVars>>

CallDeleteUser ==
  \E email \in Emails :
    LET r == DeleteUser(file, email)
    IN /\ file' = r.file
       /\ last' = [op |-> "DeleteUser", err |-> r.err]
       /\ deleted' = IF r.err = ErrNil THEN deleted \cup {email} ELSE deleted
       /\ UNCHANGED concVars

CallCreatePost ==
  \E email \in Emails, text \in Texts, id \in Ids, t \in Times :
    LET r == CreatePost(file, email, text, id, TimeNow(t))
    IN /\ file' = r.file
       /\ last' = [op |-> "CreatePost", err |-> r.err]
       /\ UNCHANGED <<deleted, concVars>>

CallGetPost ==
  \E id \in Ids :
    LET r == GetPost(file, id)
    IN /\ last' = [op |-> "GetPost", err |-> r.err]
       /\ UNCHANGED <<file, deleted, concVars>>

CallGetPosts ==
  \E email \in Emails :
    LET r == GetPosts(file, email)
    IN /\ last' = [op |-> "GetPosts", err |-> r.err]
       /\ UNCHANGED <<file, deleted, concVars>>

CallDeletePost ==
  \E id \in Ids :
    LET r == DeletePost(file, id)
    IN /\ file' = r.file
       /\ last' = [op |-> "DeletePost", err |-> r.err]
       /\ UNCHANGED <<deleted, concVars>>

Next ==
  \/ CallEnsureDB
  \/ CallCreateUser
  \/ CallUpdateUser
  \/ CallGetUser
  \/ CallDeleteUser
  \/ CallCreatePost
  \/ CallGetPost
  \/ CallGetPosts
  \/ CallDeletePost

Spec == Init /\ [][Next]_vars

\* ------------------------------------------------------------------ SpecFault: one caller, a file that goes bad

\* The file stops being a readable document: it is left empty or with a stale
\* tail, as overlapping os.WriteFile calls leave it (SpecConc), or it can no
\* longer be read. Nothing but the store is taken to write it afterwards.
Damage ==
  /\ IsDoc(file)
  /\ file' \in {EmptyFile, MixedFile(file.size), DeniedFile}
  /\ last' = [op |-> "Damage", err |-> ErrNil]
  /\ UNCHANGED <<deleted, concVars>>

NextFault ==
  \/ Next
  \/ Damage

SpecFault == Init /\ [][NextFault]_vars

\* ------------------------------------------------------------------ SpecConc: several callers

\* main: NewClient, then EnsureDB, before the server accepts a request.
InitConc ==
  /\ file = EnsureDB(NoFile).file
  /\ last = [op |-> "none", err |-> ErrNil]
  /\ deleted = {}
  /\ proc = [p \in Procs |-> IdleProc]
  /\ ver = 0
  /\ lastWriter = "none"
  /\ ncalls = 0

\* The store calls a goroutine can make, with their arguments.
Calls ==
  LET c == NewCall
  IN {[c EXCEPT !.op = "CreateUser", !.email = e, !.password = pr[1], !.name = pr[2],
                !.age = pr[3]] : e \in Emails, pr \in Profiles}
     \cup {[c EXCEPT !.op = "UpdateUser", !.email = e, !.password = pr[1], !.name = pr[2],
                     !.age = pr[3]] : e \in Emails, pr \in Profiles}
     \cup {[c EXCEPT !.op = o, !.email = e] :
             o \in {"GetUser", "DeleteUser", "GetPosts"}, e \in Emails}
     \cup {[c EXCEPT !.op = "CreatePost", !.email = e, !.text = x] :
             e \in Emails, x \in Texts}
     \cup {[c EXCEPT !.op = o, !.id = i] : o \in {"GetPost", "DeletePost"}, i \in Ids}

\* A goroutine calls a store operation.
Begin(p) ==
  /\ proc[p].pc \in {"idle", "done"}
  /\ ncalls < MaxCalls
  /\ ncalls' = ncalls + 1
  /\ \E c \in Calls : proc' = [proc EXCEPT ![p] = c]
  /\ UNCHANGED <<file, last, deleted, ver, lastWriter>>

\* The call returns: what it returns and what its load saw are kept, the
\* loaded document is dropped.
Returned(q, err, user, post) ==
  [q EXCEPT !.pc = "done", !.err = err, !.user = user, !.post = post, !.db = ZeroDB]

\* The call goes on to os.WriteFile with the document it has changed.
ToWrite(q, db, user, post) ==
  [q EXCEPT !.pc = "open", !.data = updateDB(db), !.user = user, !.post = post,
            !.db = ZeroDB]

\* readDB, then the rest of the call up to its return or its updateDB.
Load(p) ==
  /\ proc[p].pc = "load"
  /\ LET r == readDB(file)
         q == [proc[p] EXCEPT !.seen = file.kind, !.loadVer = ver]
     IN IF r.err # ErrNil
        THEN proc' = [proc EXCEPT ![p] = Returned(q, r.err, ZeroUser, ZeroPost)]
        ELSE CASE q.op = "GetUser" ->
                    LET g == GetUser(file, q.email)
                    IN proc' = [proc EXCEPT ![p] = Returned(q, g.err, g.user, ZeroPost)]
               [] q.op = "GetPost" ->
                    LET g == GetPost(file, q.id)
                    IN proc' = [proc EXCEPT ![p] = Returned(q, g.err, ZeroUser, g.post)]
               [] q.op = "GetPosts" ->
                    proc' = [proc EXCEPT ![p] = Returned(q, ErrNil, ZeroUser, ZeroPost)]
               [] q.op = "CreateUser" ->
                    \E t \in Times :
                      LET m == CreateUserMem(r.db, q.email, q.password, q.name, q.age,
                                             TimeNow(t))
                      IN proc' = [proc EXCEPT ![p] =
                                    IF m.err # ErrNil
                                    THEN Returned(q, m.err, ZeroUser, ZeroPost)
                                    ELSE ToWrite(q, m.db, m.user, ZeroPost)]
               [] q.op = "UpdateUser" ->
                    LET m == UpdateUserMem(r.db, q.email, q.password, q.name, q.age)
                    IN proc' = [proc EXCEPT ![p] =
                                  IF m.err # ErrNil
                                  THEN Returned(q, m.err, ZeroUser, ZeroPost)
                                  ELSE ToWrite(q, m.db, m.user, ZeroPost)]
               [] q.op = "DeleteUser" ->
                    LET m == DeleteUserMem(r.db, q.email)
                    IN proc' = [proc EXCEPT ![p] =
                                  IF m.err # ErrNil
                                  THEN Returned(q, m.err, ZeroUser, ZeroPost)
                                  ELSE ToWrite(q, m.db, ZeroUser, ZeroPost)]
               [] q.op = "DeletePost" ->
                    LET m == DeletePostMem(r.db, q.id)
                    IN proc' = [proc EXCEPT ![p] =
                                  IF m.err # ErrNil
                                  THEN Returned(q, m.err, ZeroUser, ZeroPost)
                                  ELSE ToWrite(q, m.db, ZeroUser, ZeroPost)]
               [] q.op = "CreatePost" ->
                    proc' = [proc EXCEPT ![p] = [q EXCEPT !.pc = "getuser", !.db = r.db]]
  /\ UNCHANGED <<file, last, deleted, ver, lastWriter, ncalls>>

\* CreatePost: c.GetUser(userEmail) loads the file again; then the id, the
\* post and its insertion into the document loaded first.
CheckUser(p) ==
  /\ proc[p].pc = "getuser"
  /\ LET g == GetUser(file, proc[p].email)
         q == [proc[p] EXCEPT !.seen = file.kind]
     IN IF g.err # ErrNil
        THEN proc' = [proc EXCEPT ![p] = Returned(q, g.err, ZeroUser, ZeroPost)]
        ELSE \E id \in Ids, t \in Times :
               LET m == CreatePostMem(q.db, q.email, q.text, id, TimeNow(t))
               IN proc' = [proc EXCEPT ![p] = ToWrite(q, m.db, ZeroUser, m.post)]
  /\ UNCHANGED <<file, last, deleted, ver, lastWriter, ncalls>>

\* os.WriteFile opens the file, which truncates it.
Open(p) ==
  /\ proc[p].pc = "open"
  /\ file' = OpenTrunc(file)
  /\ ver' = ver + 1
  /\ proc' = [proc EXCEPT ![p].pc = "write"]
  /\ UNCHANGED <<last, deleted, lastWriter, ncalls>>

\* os.WriteFile writes the bytes and the call returns its result.
Write(p) ==
  /\ proc[p].pc = "write"
  /\ file' = WriteData(file, proc[p].data)
  /\ lastWriter' = p
  /\ proc' = [proc EXCEPT ![p].pc = "done", ![p].err = ErrNil, ![p].wrote = TRUE]
  /\ UNCHANGED <<last, deleted, ver, ncalls>>

NextConc == \E p \in Procs : Begin(p) \/ Load(p) \/ CheckUser(p) \/ Open(p) \/ Write(p)

SpecConc == InitConc /\ [][NextConc]_vars

\* ------------------------------------------------------------------ SpecHttp: the HTTP handlers

\* In SpecHttp proc[p] is the request goroutine p serves and ncalls counts the
\* requests received. Each store call of a handler is taken whole; calls of
\* different requests fall between a handler's existence check and its store
\* call in any order.

NoProfile == <<"", "", 0>>

\* A request as the endpoint handler receives it: the handler its method
\* selects, whether its body decodes and its path has the expected form (ok),
\* its parameters; then the error of its last store call (cause) and the
\* status codes of the respondWithJSON calls made for it (writes).
HttpRequest(handler, ok, email, pr, text, id) ==
  [pc |-> "check", handler |-> handler, ok |-> ok, email |-> email,
   password |-> pr[1], name |-> pr[2], age |-> pr[3], text |-> text, id |-> id,
   cause |-> ErrNil, writes |-> <<>>]

Handlers ==
  {"handlerCreatePost", "handlerRetrievePosts", "handlerDeletePost", "handlerCreateUser",
   "handlerGetUser", "handlerUpdateUser", "handlerDeleteUser"}

Requests ==
  {HttpRequest("handlerCreatePost", TRUE, e, NoProfile, t, "") : e \in Emails, t \in Texts}
  \cup {HttpRequest("handlerRetrievePosts", TRUE, e, NoProfile, "", "") : e \in Emails}
  \cup {HttpRequest("handlerDeletePost", TRUE, "", NoProfile, "", i) : i \in Ids}
  \cup {HttpRequest("handlerCreateUser", TRUE, e, pr, "", "") : e \in Emails, pr \in Profiles}
  \cup {HttpRequest("handlerGetUser", TRUE, e, NoProfile, "", "") : e \in Emails}
  \cup {HttpRequest("handlerUpdateUser", TRUE, e, pr, "", "") : e \in Emails, pr \in Profiles}
  \cup {HttpRequest("handlerDeleteUser", TRUE, e, NoProfile, "", "") : e \in Emails}
  \cup {HttpRequest(h, FALSE, "", NoProfile, "", "") : h \in Handlers}
  \cup {HttpRequest("PUT /posts", TRUE, "", NoProfile, "", ""),
        HttpRequest("method not supported", TRUE, "", NoProfile, "", "")}

\* userExists, postExists: any error of the store call counts as "no".
userExists(f, email) == GetUser(f, email).err = ErrNil

postExists(f, id) == GetPost(f, id).err = ErrNil

\* respondWithJSON: one WriteHeader(code) and one Write of the marshalled
\* payload (json.Marshal of these payloads does not fail).
respondWithJSON(q, code) == [q EXCEPT !.writes = Append(@, code)]

\* respondWithError
respondWithError(q, code) == respondWithJSON(q, code)

\* The handler returns. When it has written nothing, net/http sends the
\* status 200 with an empty body on its behalf.
Served(q) ==
  [q EXCEPT !.pc = "end", !.writes = IF @ = <<>> THEN <<200>> ELSE @]

\* endpointUsersHandler, endpointPostsHandler: the switch on the method, then
\* the handler up to its existence check (decoding of the body, form of the
\* path).
Receive(p) ==
  /\ proc[p].pc \in {"idle", "end"}
  /\ ncalls < MaxRequests
  /\ ncalls' = ncalls + 1
  /\ \E r \in Requests :
       proc' = [proc EXCEPT ![p] =
                  CASE r.handler = "method not supported" -> Served(respondWithError(r, 404))
                    [] r.handler = "PUT /posts" -> Served(r)
                    [] r.handler \in Handlers /\ ~r.ok -> Served(respondWithError(r, 400))
                    [] OTHER -> r]
  /\ UNCHANGED <<file, last, deleted, ver, lastWriter>>

\* The handler's existence check: userExists or postExists, and the 400 it
\* answers with when the check goes against the request.
Check(p) ==
  /\ proc[p].pc = "check"
  /\ LET q == proc[p]
         err == IF q.handler = "handlerDeletePost"
                THEN GetPost(file, q.id).err ELSE GetUser(file, q.email).err
         exists == IF q.handler = "handlerDeletePost"
                   THEN postExists(file, q.id) ELSE userExists(file, q.email)
         refused == IF q.handler = "handlerCreateUser" THEN exists ELSE ~exists
         c == [q EXCEPT !.cause = err]
     IN proc' = [proc EXCEPT ![p] =
                   IF refused THEN Served(respondWithError(c, 400))
                   ELSE [c EXCEPT !.pc = "call"]]
  /\ UNCHANGED <<file, last, deleted, ver, lastWriter, ncalls>>

\* The end of every handler but handlerGetUser: 500 and return when the store
\* call failed, the success status otherwise.
Respond(q, err, code) ==
  LET c == [q EXCEPT !.cause = err]
  IN IF err # ErrNil THEN Served(respondWithError(c, 500))
     ELSE Served(respondWithJSON(c, code))

\* The end of handlerGetUser: 500 when GetUser failed, and then, with no
\* return in between, 200 with the user.
RespondGetUser(q, err) ==
  LET c == [q EXCEPT !.cause = err]
      e == IF err # ErrNil THEN respondWithError(c, 500) ELSE c
  IN Served(respondWithJSON(e, 200))

\* The handler's store call and its response.
StoreCall(p) ==
  /\ proc[p].pc = "call"
  /\ LET q == proc[p]
     IN CASE q.handler = "handlerCreatePost" ->
               \E id \in Ids, t \in Times :
                 LET r == CreatePost(file, q.email, q.text, id, TimeNow(t))
                 IN /\ file' = r.file
                    /\ proc' = [proc EXCEPT ![p] = Respond(q, r.err, 201)]
          [] q.handler = "handlerRetrievePosts" ->
               /\ file' = file
               /\ proc' = [proc EXCEPT ![p] = Respond(q, GetPosts(file, q.email).err, 200)]
          [] q.handler = "handlerDeletePost" ->
               LET r == DeletePost(file, q.id)
               IN /\ file' = r.file
                  /\ proc' = [proc EXCEPT ![p] = Respond(q, r.err, 200)]
          [] q.handler = "handlerCreateUser" ->
               \E t \in Times :
                 LET r == CreateUser(file, q.email, q.password, q.name, q.age, TimeNow(t))
                 IN /\ file' = r.file
                    /\ proc' = [proc EXCEPT ![p] = Respond(q, r.err, 201)]
          [] q.handler = "handlerGetUser" ->
               /\ file' = file
               /\ proc' = [proc EXCEPT ![p] = RespondGetUser(q, GetUser(file, q.email).err)]
          [] q.handler = "handlerUpdateUser" ->
               LET r == UpdateUser(file, q.email, q.password, q.name, q.age)
               IN /\ file' = r.file
                  /\ proc' = [proc EXCEPT ![p] = Respond(q, r.err, 200)]
          [] q.handler = "handlerDeleteUser" ->
               LET r == DeleteUser(file, q.email)
               IN /\ file' = r.file
                  /\ proc' = [proc EXCEPT ![p] = Respond(q, r.err, 200)]
  /\ UNCHANGED <<last, deleted, ver, lastWriter, ncalls>>

NextHttp ==
  \/ \E p \in Procs : Receive(p) \/ Check(p) \/ StoreCall(p)
  \/ Damage

SpecHttp == InitConc /\ [][NextHttp]_vars

\* ------------------------------------------------------------------ claims under Spec

\* C1: for every email that is not a key of users, CreateUser succeeds and
\* returns a User with the values supplied, and GetUser of that email on the
\* document CreateUser left returns exactly the User CreateUser returned.
C1_CreateUserThenGetUser ==
  IsDoc(file) =>
    \A email \in Emails \ DOMAIN file.users, pr \in Profiles, t \in Times :
      LET r == CreateUser(file, email, pr[1], pr[2], pr[3], TimeNow(t))
          g == GetUser(r.file, email)
      IN /\ r.err = ErrNil
         /\ r.user.Email = email
         /\ r.user.Password = pr[1]
         /\ r.user.Name = pr[2]
         /\ r.user.Age = pr[3]
         /\ r.user.CreatedAt.ns = t
         /\ g.err = ErrNil
         /\ g.user = r.user

\* A CreateUser has just succeeded and its user is in the document.
C1_Witness ==
  /\ last = [op |-> "CreateUser", err |-> ErrNil]
  /\ IsDoc(file)
  /\ DOMAIN file.users # {}

\* C2: CreateUser of an email that is already a key fails with the
\* already-exists error and leaves the whole document as it was.
C2_DuplicateCreateUserFails ==
  IsDoc(file) =>
    \A email \in DOMAIN file.users, pr \in Profiles, t \in Times :
      CreateUser(file, email, pr[1], pr[2], pr[3], TimeNow(t))
        = [file |-> file, err |-> ErrAlreadyExists, user |-> ZeroUser]

\* A CreateUser has just failed on a duplicate, with the first user still stored.
C2_Witness ==
  /\ last = [op |-> "CreateUser", err |-> ErrAlreadyExists]
  /\ IsDoc(file)
  /\ DOMAIN file.users # {}

\* C3, as claimed: a CreatePost step that succeeds adds exactly one entry to
\* posts and leaves every post that was there as it was.
C3_CreatePostNeverReusesId ==
  [][(last'.op = "CreatePost" /\ last'.err = ErrNil /\ IsDoc(file) /\ IsDoc(file'))
       => /\ Cardinality(DOMAIN file'.posts) = Cardinality(DOMAIN file.posts) + 1
          /\ \A i \in DOMAIN file.posts :
               i \in DOMAIN file'.posts /\ file'.posts[i] = file.posts[i]]_vars

\* C4: CreatePost for an email that is not a key fails with the not-found error
\* and leaves the document as it was; for a key it succeeds, returns a Post with
\* a non-empty id, that email and that text, and GetPost of the returned id on
\* the document it left returns the same Post.
C4_CreatePostChecksUser ==
  IsDoc(file) =>
    \A email \in Emails, text \in Texts, id \in Ids, t \in Times :
      LET r == CreatePost(file, email, text, id, TimeNow(t))
      IN IF email \notin DOMAIN file.users
         THEN r = [file |-> file, err |-> ErrNotFound, post |-> ZeroPost]
         ELSE /\ r.err = ErrNil
              /\ r.post.ID # ""
              /\ r.post.UserEmail = email
              /\ r.post.Text = text
              /\ IsDoc(r.file)
              /\ r.post.ID \in DOMAIN r.file.posts
              /\ GetPost(r.file, r.post.ID) = [err |-> ErrNil, post |-> r.post]

\* A CreatePost has just succeeded and a post of an existing user is stored.
C4_Witness ==
  /\ last = [op |-> "CreatePost", err |-> ErrNil]
  /\ IsDoc(file)
  /\ \E i \in DOMAIN file.posts : file.posts[i].userEmail \in DOMAIN file.users

\* C7: a successful DeleteUser removes the users entry of that email and
\* nothing else: posts is as it was, GetPosts of that email returns the same
\* posts, and every other user entry is as it was.
C7_DeleteUserTouchesOnlyItsEntry ==
  IsDoc(file) =>
    \A email \in DOMAIN file.users :
      LET r == DeleteUser(file, email)
      IN /\ r.err = ErrNil
         /\ IsDoc(r.file)
         /\ r.file.posts = file.posts
         /\ GetPosts(r.file, email) = GetPosts(file, email)
         /\ DOMAIN r.file.users = (DOMAIN file.users) \ {email}
         /\ \A o \in DOMAIN r.file.users : r.file.users[o] = file.users[o]

\* A DeleteUser has just succeeded while a post of the deleted user and another
\* user are stored.
C7_Witness ==
  /\ last = [op |-> "DeleteUser", err |-> ErrNil]
  /\ IsDoc(file)
  /\ DOMAIN file.users # {}
  /\ \E i \in DOMAIN file.posts : file.posts[i].userEmail \in deleted

\* C8: GetUser of an email deleted by DeleteUser and not created again since
\* fails with the not-found error; DeleteUser of an email that is not a key
\* fails with the not-found error and leaves the document as it was.
C8_DeletedUserStaysNotFound ==
  /\ \A email \in deleted : GetUser(file, email) = [err |-> ErrNotFound, user |-> ZeroUser]
  /\ IsDoc(file) =>
       \A email \in Emails \ DOMAIN file.users :
         DeleteUser(file, email) = [file |-> file, err |-> ErrNotFound]

\* A GetUser has just failed with not-found while every email is a deleted one.
C8_Witness ==
  /\ last = [op |-> "GetUser", err |-> ErrNotFound]
  /\ deleted = Emails

\* C9: UpdateUser of an email that is not a key fails with the not-found error
\* and leaves the whole document as it was.
C9_UpdateMissingUserFails ==
  IsDoc(file) =>
    \A email \in Emails \ DOMAIN file.users, pr \in Profiles :
      UpdateUser(file, email, pr[1], pr[2], pr[3])
        = [file |-> file, err |-> ErrNotFound, user |-> ZeroUser]

\* An UpdateUser has just failed with not-found.
C9_Witness ==
  /\ last = [op |-> "UpdateUser", err |-> ErrNotFound]
  /\ IsDoc(file)

\* C10: UpdateUser of a key succeeds; the User it returns has the new password,
\* name and age and the createdAt it had, and is what is stored under that key;
\* the keys of users, every other user entry and posts are as they were.
C10_UpdateUserReplacesFields ==
  IsDoc(file) =>
    \A email \in DOMAIN file.users, pr \in Profiles :
      LET r == UpdateUser(file, email, pr[1], pr[2], pr[3])
          old == UnmarshalUser(file.users[email])
      IN /\ r.err = ErrNil
         /\ r.user = [CreatedAt |-> old.CreatedAt, Email |-> email, Password |-> pr[1],
                      Name |-> pr[2], Age |-> pr[3]]
         /\ IsDoc(r.file)
         /\ DOMAIN r.file.users = DOMAIN file.users
         /\ r.file.users[email] = MarshalUser(r.user)
         /\ GetUser(r.file, email) = [err |-> ErrNil, user |-> r.user]
         /\ \A o \in (DOMAIN file.users) \ {email} : r.file.users[o] = file.users[o]
         /\ r.file.posts = file.posts

\* An UpdateUser has just succeeded and the user it wrote is stored.
C10_Witness ==
  /\ last = [op |-> "UpdateUser", err |-> ErrNil]
  /\ IsDoc(file)
  /\ \E e \in DOMAIN file.users : file.users[e].password = "pw2"

\* C11: whatever the order of the map iteration, GetPosts returns without error
\* a slice that holds each stored post whose userEmail is the argument once and
\* nothing else; it is the empty slice when no post matches, also when the
\* email is no user's.
C11_GetPostsReturnsExactlyTheMatches ==
  IsDoc(file) =>
    \A email \in Emails, order \in Orders(DOMAIN file.posts) :
      LET r == GetPostsSlice(file, email, order)
          want == {i \in DOMAIN file.posts : file.posts[i].userEmail = email}
      IN /\ r.err = ErrNil
         /\ Len(r.posts) = Cardinality(want)
         /\ {r.posts[k] : k \in 1..Len(r.posts)} = {UnmarshalPost(file.posts[i]) : i \in want}
         /\ GetPosts(file, email).posts = {r.posts[k] : k \in 1..Len(r.posts)}

\* A GetPosts has just returned while two posts are stored, by different
\* authors, one of whom is no longer a user.
C11_Witness ==
  /\ last = [op |-> "GetPosts", err |-> ErrNil]
  /\ IsDoc(file)
  /\ \E i, j \in DOMAIN file.posts :
       /\ file.posts[i].userEmail # file.posts[j].userEmail
       /\ file.posts[i].userEmail \in deleted

\* C12: a successful DeletePost removes the posts entry of that id and nothing
\* else: GetPost of that id then fails with the not-found error, GetPost of
\* every other id returns what it returned before, users is as it was;
\* DeletePost of an id that is not a key fails with the not-found error and
\* leaves the document as it was.
C12_DeletePostTouchesOnlyItsEntry ==
  IsDoc(file) =>
    \A id \in Ids :
      LET r == DeletePost(file, id)
      IN IF id \notin DOMAIN file.posts
         THEN r = [file |-> file, err |-> ErrNotFound]
         ELSE /\ r.err = ErrNil
              /\ IsDoc(r.file)
              /\ GetPost(r.file, id) = [err |-> ErrNotFound, post |-> ZeroPost]
              /\ \A o \in Ids \ {id} : GetPost(r.file, o) = GetPost(file, o)
              /\ DOMAIN r.file.posts = (DOMAIN file.posts) \ {id}
              /\ r.file.users = file.users

\* A DeletePost has just succeeded and another post is still stored.
C12_Witness ==
  /\ last = [op |-> "DeletePost", err |-> ErrNil]
  /\ IsDoc(file)
  /\ DOMAIN file.posts # {}

\* C13: EnsureDB on no file creates a document with two empty maps and returns
\* no error; on a document, with whatever users and posts, it returns no error
\* and leaves the file as it was; so a second EnsureDB changes nothing.
C13_EnsureDBIdempotent ==
  LET r == EnsureDB(file)
  IN /\ file.kind = "absent" =>
          /\ r.err = ErrNil
          /\ IsDoc(r.file)
          /\ r.file.users = EmptyMap
          /\ r.file.posts = EmptyMap
     /\ IsDoc(file) => r = [file |-> file, err |-> ErrNil]
     /\ EnsureDB(r.file) = r

\* An EnsureDB has just returned on a document that holds a user and a post.
C13_Witness ==
  /\ last = [op |-> "EnsureDB", err |-> ErrNil]
  /\ IsDoc(file)
  /\ DOMAIN file.users # {}
  /\ DOMAIN file.posts # {}

C18_KeysAreOwnFields ==
  IsDoc(file) =>
    /\ \A e \in DOMAIN file.users : file.users[e].email = e
    /\ \A i \in DOMAIN file.posts : file.posts[i].id = i
    /\ \A e \in Emails, pr \in Profiles :
         LET r == UpdateUser(file, e, pr[1], pr[2], pr[3])
         IN /\ e \in DOMAIN file.users => Unmarshal(file).Users[e].Email = e
            /\ DOMAIN file.users \subseteq DOMAIN r.file.users

\* An UpdateUser has just succeeded on a document that holds users and posts.
C18_Witness ==
  /\ last = [op |-> "UpdateUser", err |-> ErrNil]
  /\ IsDoc(file)
  /\ DOMAIN file.users # {}
  /\ DOMAIN file.posts # {}

\* ------------------------------------------------------------------ claims under SpecFault

\* C14: while the file exists and is not a readable document (it does not
\* parse, or reading it fails otherwise than with not-found), EnsureDB and
\* every other store operation return the read or parse error, and those that
\* could write leave the file as it was.
C14_UnusableFileIsSurfacedNotRepaired ==
  Unusable(file) =>
    LET bad == {ErrSyntax, ErrPermission}
    IN /\ EnsureDB(file).err \in bad
       /\ EnsureDB(file).file = file
       /\ \A email \in Emails :
            /\ GetUser(file, email).err \in bad
            /\ GetPosts(file, email).err \in bad
            /\ DeleteUser(file, email).err \in bad
            /\ DeleteUser(file, email).file = file
            /\ \A pr \in Profiles :
                 /\ UpdateUser(file, email, pr[1], pr[2], pr[3]).err \in bad
                 /\ UpdateUser(file, email, pr[1], pr[2], pr[3]).file = file
                 /\ \A t \in Times :
                      LET r == CreateUser(file, email, pr[1], pr[2], pr[3], TimeNow(t))
                      IN r.err \in bad /\ r.file = file
            /\ \A text \in Texts, id \in Ids, t \in Times :
                 LET r == CreatePost(file, email, text, id, TimeNow(t))
                 IN r.err \in bad /\ r.file = file
       /\ \A id \in Ids :
            /\ GetPost(file, id).err \in bad
            /\ DeletePost(file, id).err \in bad
            /\ DeletePost(file, id).file = file

\* An EnsureDB has just failed on a file that does not parse.
C14_Witness ==
  /\ last = [op |-> "EnsureDB", err |-> ErrSyntax]
  /\ Unusable(file)

\* ------------------------------------------------------------------ claims under SpecConc

\* C5, as claimed: every load of the file by any call, also one made while
\* another call's os.WriteFile is under way, sees a complete document.
C5_EveryLoadSeesADocument ==
  \A p \in Procs : proc[p].pc # "idle" => proc[p].seen \in {"none", "json"}

\* C6, as claimed: when two mutating calls have both loaded the document before
\* either opened the file for writing, and both have returned success, the
\* file holds the document of the one that wrote last.
C6_LaterWriterWins ==
  \A p, q \in Procs :
    (/\ p # q
     /\ proc[p].pc = "done" /\ proc[p].wrote /\ proc[p].err = ErrNil
     /\ proc[q].pc = "done" /\ proc[q].wrote /\ proc[q].err = ErrNil
     /\ proc[p].loadVer = proc[q].loadVer
     /\ ver = proc[p].loadVer + 2
     /\ lastWriter = q)
    => file = proc[q].data

\* C17, as claimed: whenever a CreatePost has returned success, the document
\* it has written has a users entry under its userEmail, however the steps of
\* other calls fall between its two loads and its write.
C17_CreatePostWritesItsAuthor ==
  \A p \in Procs :
    (/\ proc[p].pc = "done"
     /\ proc[p].op = "CreatePost"
     /\ proc[p].wrote
     /\ proc[p].err = ErrNil)
    => proc[p].email \in DOMAIN proc[p].data.users

\* ------------------------------------------------------------------ claims under SpecHttp

\* C16, as claimed: the status of a response follows the error of the store
\* call behind it: 4xx for the not-found error, 4xx for the already-exists
\* error, 5xx for a file that does not parse or cannot be read.
C16_StatusFollowsStoreError ==
  \A p \in Procs :
    proc[p].pc = "end" =>
      LET status == proc[p].writes[1]
          cause == proc[p].cause
      IN /\ cause = ErrNotFound => (status >= 400 /\ status < 500)
         /\ cause = ErrAlreadyExists => (status >= 400 /\ status < 500)
         /\ cause \in {ErrSyntax, ErrPermission} => (status >= 500 /\ status < 600)

\* C19, as claimed: for every request served, whatever the path through its
\* handler, respondWithJSON has been called once.
C19_OneResponsePerRequest ==
  \A p \in Procs : proc[p].pc = "end" => Len(proc[p].writes) = 1

====
